---------------------------- MODULE Spec2Model ----------------------------
(***************************************************************************)
(* Rating-and-tiering engine of the BAR duel championship leaderboard.     *)
(*                                                                         *)
(* Modelled sources:                                                       *)
(*   src/actions/config.py                  tier table, CR constants       *)
(*   src/actions/tier_utils.py              tier lookups, CR delta         *)
(*   src/actions/recalculate_leaderboard.py full recalculation             *)
(*   src/actions/process_submission.py      incremental update             *)
(*                                                                         *)
(* Numbers.  Skill values (mu, sigma, mu - sigma) are floats in the code.  *)
(* Here they are fixed-point integers counting units of 1/Scale, so that   *)
(* DEFAULT_SIGMA = 25/6 and the older shape's sigma = skill/3 are exact.   *)
(* The CR delta is computed over exact rationals num/den and rounded the   *)
(* way Python's round() does (ties to even).  Champion ratings and match   *)
(* counters are plain integers, as in the code.                            *)
(*                                                                         *)
(* Left out: the display-only fields winrate, percentile, latest_os,       *)
(* tier_logo, tier_info (latest_os is the output of the external openskill *)
(* library; no ledger field that the engine reads back depends on them),   *)
(* and the match fields id, map, duration_ms, which neither engine script  *)
(* ever reads.                                                             *)
(***************************************************************************)
EXTENDS Integers, Sequences, FiniteSets, TLC

\* Fixed-point resolution of skill values: one unit is 1/Scale.
Scale == 6

\* ------------------------------------------------------------------------
\* Bounds of the model
\* ------------------------------------------------------------------------
\* Largest number of submission files in the submissions directory.
MaxFiles == 2
\* Largest number of incremental runs that die between their two writes.
MaxFailures == 1
\* Pre-match ordinals of the CR-delta specification range from -5 points to
\* OsRange points, in steps of 1/Scale.
OsRange == 40
\* The tier-lookup specification draws ordinals from OsMargin points below
\* the lowest percentile bound to OsMargin points above the highest, in steps
\* of 1/Scale, and ratings from CrMargin below the lowest min_cr to CrMargin
\* above the highest max_cr.
OsMargin == 5
CrMargin == 100
\* The seed-rating specification draws mu from 0 to MaxSeedMu points in whole
\* points and sigma from 0 to MaxSeedSigma points in steps of 1/Scale.
MaxSeedMu == 20
MaxSeedSigma == 5

\* ------------------------------------------------------------------------
\* config.py
\* ------------------------------------------------------------------------
TIER_DEFINITIONS ==
    << [name |-> "Bronze",      min_os |-> 1,  max_os |-> 20,  min_cr |-> 900,  max_cr |-> 1200],
       [name |-> "Silver",      min_os |-> 20, max_os |-> 40,  min_cr |-> 1200, max_cr |-> 1500],
       [name |-> "Gold",        min_os |-> 40, max_os |-> 60,  min_cr |-> 1500, max_cr |-> 1800],
       [name |-> "Platinum",    min_os |-> 60, max_os |-> 80,  min_cr |-> 1800, max_cr |-> 2100],
       [name |-> "Diamond",     min_os |-> 80, max_os |-> 95,  min_cr |-> 2100, max_cr |-> 2500],
       [name |-> "Master",      min_os |-> 95, max_os |-> 99,  min_cr |-> 2500, max_cr |-> 3000],
       [name |-> "Grandmaster", min_os |-> 99, max_os |-> 100, min_cr |-> 3000, max_cr |-> 5000] >>

CR_BASE_CHANGE == 15
CR_MIN_CHANGE == 2
CR_MAX_CHANGE == 30
\* SKILL_DIFF_THRESHOLD = 15.0, in whole points
SKILL_DIFF_THRESHOLD == 15

\* DEFAULT_MU = 25.0 and DEFAULT_SIGMA = 25.0 / 6.0, in units of 1/Scale
DEFAULT_MU == 25 * Scale
DEFAULT_SIGMA == (25 * Scale) \div 6

\* ------------------------------------------------------------------------
\* Python built-ins used by the code
\* ------------------------------------------------------------------------
\* max(lo, min(hi, num/den)) for den > 0, returned as a numerator over den.
ClampNum(lo, hi, num, den) ==
    IF num < lo * den THEN lo * den
    ELSE IF num > hi * den THEN hi * den
    ELSE num

\* int(round(num/den)) for den > 0: Python 3 rounds halves to the even integer.
RoundHalfEven(num, den) ==
    LET q == num \div den
        r == num % den
    IN  IF 2 * r < den THEN q
        ELSE IF 2 * r > den THEN q + 1
        ELSE IF q % 2 = 0 THEN q ELSE q + 1

\* ------------------------------------------------------------------------
\* tier_utils.py
\* ------------------------------------------------------------------------
\* A variant that tests min_os <= os_value <= max_os.
get_tier_from_os_closed(os_value) ==
    LET hits == { i \in 1..Len(TIER_DEFINITIONS) :
                    /\ TIER_DEFINITIONS[i].min_os * Scale <= os_value
                    /\ os_value <= TIER_DEFINITIONS[i].max_os * Scale }
        i == IF hits = {} THEN Len(TIER_DEFINITIONS)
             ELSE CHOOSE k \in hits : \A j \in hits : k <= j
    IN  TIER_DEFINITIONS[i]

\* First tier whose [min_os, max_os) holds os_value; the last tier otherwise.
get_tier_from_os(os_value) ==
    LET hits == { i \in 1..Len(TIER_DEFINITIONS) :
                    /\ TIER_DEFINITIONS[i].min_os * Scale <= os_value
                    /\ os_value < TIER_DEFINITIONS[i].max_os * Scale }
        i == IF hits = {} THEN Len(TIER_DEFINITIONS)
             ELSE CHOOSE k \in hits : \A j \in hits : k <= j
    IN  TIER_DEFINITIONS[i]

\* A variant without the `if champion_rating < TIER_DEFINITIONS[0][3]` branch.
get_tier_from_cr_no_floor(champion_rating) ==
    LET hits == { i \in 1..Len(TIER_DEFINITIONS) :
                    /\ TIER_DEFINITIONS[i].min_cr <= champion_rating
                    /\ champion_rating < TIER_DEFINITIONS[i].max_cr }
    IN  IF hits # {}
        THEN TIER_DEFINITIONS[CHOOSE k \in hits : \A j \in hits : k <= j].name
        ELSE TIER_DEFINITIONS[Len(TIER_DEFINITIONS)].name

\* First tier whose [min_cr, max_cr) holds the rating; the lowest tier below
\* its minimum, the highest tier otherwise.
get_tier_from_cr(champion_rating) ==
    LET hits == { i \in 1..Len(TIER_DEFINITIONS) :
                    /\ TIER_DEFINITIONS[i].min_cr <= champion_rating
                    /\ champion_rating < TIER_DEFINITIONS[i].max_cr }
    IN  IF hits # {}
        THEN TIER_DEFINITIONS[CHOOSE k \in hits : \A j \in hits : k <= j].name
        ELSE IF champion_rating < TIER_DEFINITIONS[1].min_cr
        THEN TIER_DEFINITIONS[1].name
        ELSE TIER_DEFINITIONS[Len(TIER_DEFINITIONS)].name

\* PERCENTILE_OS_POINTS: (percentile, ordinal), the ordinal in hundredths of
\* a point.
PERCENTILE_OS_POINTS ==
    << <<1, 260>>, <<5, 726>>, <<10, 958>>, <<20, 1221>>, <<30, 1384>>,
       <<40, 1486>>, <<50, 1645>>, <<60, 1817>>, <<70, 1957>>,
       <<80, 2180>>, <<90, 2545>>, <<95, 2943>>, <<96, 3102>>,
       <<97, 3261>>, <<98, 3530>>, <<99, 3968>> >>

\* The percentile of an ordinal, as the exact rational num / den (den > 0):
\* the first percentile at or below the first point, the last at or above the
\* last point, linear interpolation inside the first segment that holds it.
get_os_percentile(os_value) ==
    LET n == Len(PERCENTILE_OS_POINTS)
        v == os_value * 100
        at(i) == PERCENTILE_OS_POINTS[i][2] * Scale
    IN  IF v <= at(1) THEN [num |-> PERCENTILE_OS_POINTS[1][1], den |-> 1]
        ELSE IF v >= at(n) THEN [num |-> PERCENTILE_OS_POINTS[n][1], den |-> 1]
        ELSE LET segs == { i \in 1..(n - 1) : at(i) <= v /\ v <= at(i + 1) }
                 i == CHOOSE k \in segs : \A j \in segs : k <= j
                 p1 == PERCENTILE_OS_POINTS[i][1]
                 p2 == PERCENTILE_OS_POINTS[i + 1][1]
                 d == at(i + 1) - at(i)
             IN  [num |-> p1 * d + (v - at(i)) * (p2 - p1), den |-> d]

\* A variant that starts a player at the top of the tier's range.
get_initial_champion_rating_top(tier_name, min_cr, max_cr) == max_cr

get_initial_champion_rating(tier_name, min_cr, max_cr) == (min_cr + max_cr) \div 2

\* A variant that forgets the final "stay within bounds" clamp.
calculate_dynamic_cr_change_unclamped(winner_os, loser_os, is_winner) ==
    LET den == SKILL_DIFF_THRESHOLD * Scale
        nd == ClampNum(-1, 1, winner_os - loser_os, den)
        raw == IF is_winner
               THEN CR_BASE_CHANGE * den - nd * (CR_BASE_CHANGE - CR_MIN_CHANGE)
               ELSE -(CR_BASE_CHANGE * den + nd * (CR_MAX_CHANGE - CR_BASE_CHANGE))
    IN  RoundHalfEven(raw, den)

\* A variant that takes the difference the other way round.
calculate_dynamic_cr_change_flipped(winner_os, loser_os, is_winner) ==
    LET den == SKILL_DIFF_THRESHOLD * Scale
        nd == ClampNum(-1, 1, loser_os - winner_os, den)
        raw == IF is_winner
               THEN CR_BASE_CHANGE * den - nd * (CR_BASE_CHANGE - CR_MIN_CHANGE)
               ELSE -(CR_BASE_CHANGE * den + nd * (CR_MAX_CHANGE - CR_BASE_CHANGE))
        cr_change == IF is_winner
                     THEN ClampNum(CR_MIN_CHANGE, CR_MAX_CHANGE, raw, den)
                     ELSE ClampNum(-CR_MAX_CHANGE, -CR_MIN_CHANGE, raw, den)
    IN  RoundHalfEven(cr_change, den)

\* The CR delta of one side of a decisive match.  winner_os and loser_os are
\* in units of 1/Scale; the rational cr_change is kept as num / den.
calculate_dynamic_cr_change(winner_os, loser_os, is_winner) ==
    LET den == SKILL_DIFF_THRESHOLD * Scale
        os_difference == winner_os - loser_os
        \* normalized_diff = nd / den, clamped to [-1, 1]
        nd == ClampNum(-1, 1, os_difference, den)
        raw == IF is_winner
               THEN CR_BASE_CHANGE * den - nd * (CR_BASE_CHANGE - CR_MIN_CHANGE)
               ELSE -(CR_BASE_CHANGE * den + nd * (CR_MAX_CHANGE - CR_BASE_CHANGE))
        cr_change == IF is_winner
                     THEN ClampNum(CR_MIN_CHANGE, CR_MAX_CHANGE, raw, den)
                     ELSE ClampNum(-CR_MAX_CHANGE, -CR_MIN_CHANGE, raw, den)
    IN  RoundHalfEven(cr_change, den)

\* ------------------------------------------------------------------------
\* Data shapes
\* ------------------------------------------------------------------------
Players == {"a", "b", "c"}
\* Python's None / a missing "winner" key (falsy).
None == "None"
\* A winner string that names neither player of the submission.
Draw == "draw"

\* seed_ratings is a JSON object name -> {mu, sigma}: a set of records with
\* distinct names.
Seed(name, mu_points, sigma_points) ==
    [name |-> name, mu |-> mu_points * Scale, sigma |-> sigma_points * Scale]

HasSeed(seed_ratings, p) == \E s \in seed_ratings : s.name = p

\* seed_ratings.get(p, {}).get("mu", DEFAULT_MU), .get("sigma", DEFAULT_SIGMA)
SeedOf(seed_ratings, p) ==
    IF HasSeed(seed_ratings, p)
    THEN CHOOSE s \in seed_ratings : s.name = p
    ELSE [name |-> p, mu |-> DEFAULT_MU, sigma |-> DEFAULT_SIGMA]

Match(winner, seed_ratings) == [winner |-> winner, seed_ratings |-> seed_ratings]
Replay(winner, players_data) == [winner |-> winner, players |-> players_data]
Skill(name, skill_points) == [name |-> name, skill |-> skill_points * Scale]
Submission(players, matches, replays) ==
    [players |-> players, matches |-> matches, replays |-> replays]

\* One row of the ledger / a player row of the leaderboard document.
PlayerRow(player, tier, initial_cr, initial_os) ==
    [type |-> "player", player |-> player, tier |-> tier,
     initial_cr |-> initial_cr, current_cr |-> initial_cr,
     matches |-> 0, wins |-> 0, losses |-> 0,
     initial_os |-> initial_os, tier_rank |-> 1]

TierHeader(tier) ==
    [type |-> "tier_header", player |-> "", tier |-> tier,
     initial_cr |-> 0, current_cr |-> 0, matches |-> 0, wins |-> 0, losses |-> 0,
     initial_os |-> 0, tier_rank |-> 0]

TierSeparator ==
    [type |-> "tier_separator", player |-> "", tier |-> "",
     initial_cr |-> 0, current_cr |-> 0, matches |-> 0, wins |-> 0, losses |-> 0,
     initial_os |-> 0, tier_rank |-> 0]

\* A dict keyed by player name that keeps insertion order is a sequence of
\* rows with distinct names.
HasPlayer(entries, p) == \E i \in 1..Len(entries) : entries[i].player = p
EntryOf(entries, p) == entries[CHOOSE i \in 1..Len(entries) : entries[i].player = p]

\* Inputs: the submissions that may be merged into submissions/bo3.
StrongWeak(p1, p2) == { Seed(p1, 45, 3), Seed(p2, 16, 4) }
Even(p1, p2) == { Seed(p1, 16, 4), Seed(p2, 16, 4) }
OnlyFirst(p1) == { Seed(p1, 16, 4) }
Lopsided(p1, p2) == { Seed(p1, 45, 3), Seed(p2, 24, 4) }

SubmissionPool ==
    { \* the favourite wins
      Submission(<<"a", "b">>, << Match("a", StrongWeak("a", "b")) >>, <<>>),
      \* an upset
      Submission(<<"a", "b">>, << Match("b", StrongWeak("a", "b")) >>, <<>>),
      \* a tie between equals
      Submission(<<"a", "b">>, << Match(Draw, Even("a", "b")) >>, <<>>),
      \* the second player has no seed rating
      Submission(<<"b", "c">>, << Match("c", OnlyFirst("b")) >>, <<>>),
      \* no winner
      Submission(<<"b", "c">>, << Match(None, Even("b", "c")) >>, <<>>),
      \* no seed ratings
      Submission(<<"a", "c">>, << Match("a", {}) >>, <<>>),
      \* wrong player count
      Submission(<<"a">>, << Match("a", StrongWeak("a", "b")) >>, <<>>),
      \* the older shape: replays with a single skill number
      Submission(<<"a", "c">>, <<>>,
                 << Replay("a", << Skill("a", 45), Skill("c", 18) >>) >>),
      \* two games in one series
      Submission(<<"b", "c">>,
                 << Match("b", StrongWeak("c", "b")), Match("c", StrongWeak("c", "b")) >>,
                 <<>>),
      \* a series of three games, all won by the favourite
      Submission(<<"a", "b">>,
                 << Match("a", Lopsided("a", "b")), Match("a", Lopsided("a", "b")),
                    Match("a", Lopsided("a", "b")) >>,
                 <<>>) }

\* ------------------------------------------------------------------------
\* Applying one game to the ledger
\* ------------------------------------------------------------------------
\* A variant that has no branch for a tie: whoever is not p1 is taken for p2.
cr_deltas_no_tie(winner, p1, p2, p1_pre_os, p2_pre_os) ==
    IF winner = p1
    THEN << calculate_dynamic_cr_change(p1_pre_os, p2_pre_os, TRUE),
            calculate_dynamic_cr_change(p1_pre_os, p2_pre_os, FALSE) >>
    ELSE << calculate_dynamic_cr_change(p2_pre_os, p1_pre_os, FALSE),
            calculate_dynamic_cr_change(p2_pre_os, p1_pre_os, TRUE) >>

\* The two `if winner == p1 ... elif winner == p2 ... else` blocks that turn
\* the pre-match ordinals of p1 and p2 into the pair of CR deltas.
cr_deltas(winner, p1, p2, p1_pre_os, p2_pre_os) ==
    IF winner = p1
    THEN << calculate_dynamic_cr_change(p1_pre_os, p2_pre_os, TRUE),
            calculate_dynamic_cr_change(p1_pre_os, p2_pre_os, FALSE) >>
    ELSE IF winner = p2
    THEN << calculate_dynamic_cr_change(p2_pre_os, p1_pre_os, FALSE),
            calculate_dynamic_cr_change(p2_pre_os, p1_pre_os, TRUE) >>
    ELSE << 0, 0 >>

\* recalculate_leaderboard.py: `if p in player_data:` current_cr, matches and
\* wins or losses of one player; the tier is left for the final pass.
update_player_data(player_data, p, cr_delta, is_win) ==
    [ i \in 1..Len(player_data) |->
        IF player_data[i].player = p
        THEN [ player_data[i] EXCEPT
                 !.current_cr = @ + cr_delta,
                 !.matches = @ + 1,
                 !.wins = IF is_win THEN @ + 1 ELSE @,
                 !.losses = IF is_win THEN @ ELSE @ + 1 ]
        ELSE player_data[i] ]

\* A variant without the `else: entry["losses"] += 1` branch.
update_player_entry_no_losses(player_entries, p, cr_delta, is_win) ==
    [ i \in 1..Len(player_entries) |->
        IF player_entries[i].player = p
        THEN [ player_entries[i] EXCEPT
                 !.current_cr = @ + cr_delta,
                 !.matches = @ + 1,
                 !.wins = IF is_win THEN @ + 1 ELSE @,
                 !.tier = get_tier_from_cr(player_entries[i].current_cr + cr_delta) ]
        ELSE player_entries[i] ]

\* A variant without the last line, `entry["tier"] = get_tier_from_cr(...)`.
update_player_entry_stale_tier(player_entries, p, cr_delta, is_win) ==
    [ i \in 1..Len(player_entries) |->
        IF player_entries[i].player = p
        THEN [ player_entries[i] EXCEPT
                 !.current_cr = @ + cr_delta,
                 !.matches = @ + 1,
                 !.wins = IF is_win THEN @ + 1 ELSE @,
                 !.losses = IF is_win THEN @ ELSE @ + 1 ]
        ELSE player_entries[i] ]

\* A variant whose current_cr never falls below the player's initial_cr.
update_player_entry_floor(player_entries, p, cr_delta, is_win) ==
    [ i \in 1..Len(player_entries) |->
        IF player_entries[i].player = p
        THEN LET new_cr == IF player_entries[i].current_cr + cr_delta
                                < player_entries[i].initial_cr
                           THEN player_entries[i].initial_cr
                           ELSE player_entries[i].current_cr + cr_delta
             IN  [ player_entries[i] EXCEPT
                     !.current_cr = new_cr,
                     !.matches = @ + 1,
                     !.wins = IF is_win THEN @ + 1 ELSE @,
                     !.losses = IF is_win THEN @ ELSE @ + 1,
                     !.tier = get_tier_from_cr(new_cr) ]
        ELSE player_entries[i] ]

\* process_submission.py: `if player in player_entries:` the same, and the
\* tier recomputed from the new current_cr.
update_player_entry(player_entries, p, cr_delta, is_win) ==
    [ i \in 1..Len(player_entries) |->
        IF player_entries[i].player = p
        THEN [ player_entries[i] EXCEPT
                 !.current_cr = @ + cr_delta,
                 !.matches = @ + 1,
                 !.wins = IF is_win THEN @ + 1 ELSE @,
                 !.losses = IF is_win THEN @ ELSE @ + 1,
                 !.tier = get_tier_from_cr(player_entries[i].current_cr + cr_delta) ]
        ELSE player_entries[i] ]

\* Full recalculation, a match of the newer shape.
process_match_for_cr_changes(match, players, player_data) ==
    IF Len(players) # 2 THEN player_data
    ELSE IF match.seed_ratings = {} \/ match.winner = None THEN player_data
    ELSE
      LET p1 == players[1]
          p2 == players[2]
          s1 == SeedOf(match.seed_ratings, p1)
          s2 == SeedOf(match.seed_ratings, p2)
          d == cr_deltas(match.winner, p1, p2, s1.mu - s1.sigma, s2.mu - s2.sigma)
          after1 == update_player_data(player_data, p1, d[1], match.winner = p1)
      IN  update_player_data(after1, p2, d[2], match.winner = p2)

\* player_skills of a replay of the older shape: the players that have a
\* name and a non-zero skill, with sigma = skill / 3.
player_skills(replay) ==
    { [name |-> replay.players[i].name,
       mu |-> replay.players[i].skill,
       sigma |-> replay.players[i].skill \div 3] :
      i \in { j \in 1..Len(replay.players) :
                replay.players[j].name # "" /\ replay.players[j].skill # 0 } }

\* Full recalculation, a replay of the older shape.
process_replay_for_cr_changes(replay, submission_players, player_data) ==
    IF Len(submission_players) # 2 THEN player_data
    ELSE IF replay.winner = None \/ Len(replay.players) # 2 THEN player_data
    ELSE IF Cardinality({ s.name : s \in player_skills(replay) }) # 2 THEN player_data
    ELSE IF ~ HasSeed(player_skills(replay), submission_players[1])
            \/ ~ HasSeed(player_skills(replay), submission_players[2]) THEN player_data
    ELSE
      LET p1 == submission_players[1]
          p2 == submission_players[2]
          s1 == SeedOf(player_skills(replay), p1)
          s2 == SeedOf(player_skills(replay), p2)
          d == cr_deltas(replay.winner, p1, p2, s1.mu - s1.sigma, s2.mu - s2.sigma)
          after1 == update_player_data(player_data, p1, d[1], replay.winner = p1)
      IN  update_player_data(after1, p2, d[2], replay.winner = p2)

\* Incremental update, a match of the newer shape.
process_match_incremental(match, players, player_entries) ==
    IF Len(players) # 2 THEN player_entries
    ELSE IF match.seed_ratings = {} \/ match.winner = None THEN player_entries
    ELSE
      LET p1 == players[1]
          p2 == players[2]
          s1 == SeedOf(match.seed_ratings, p1)
          s2 == SeedOf(match.seed_ratings, p2)
          d == cr_deltas(match.winner, p1, p2, s1.mu - s1.sigma, s2.mu - s2.sigma)
          after1 == update_player_entry(player_entries, p1, d[1], match.winner = p1)
      IN  update_player_entry(after1, p2, d[2], match.winner = p2)

\* ------------------------------------------------------------------------
\* A player's initial ordinal
\* ------------------------------------------------------------------------
\* The smallest element of a non-empty set of indices.
Min(S) == CHOOSE k \in S : \A j \in S : k <= j

\* What one submission says about a player's first ordinal: the first match
\* whose seed_ratings names the player, else the first replay that carries
\* a skill for the player, else nothing.
initial_os_in(sub, player) ==
    LET ms == { i \in 1..Len(sub.matches) : HasSeed(sub.matches[i].seed_ratings, player) }
        rs == { i \in 1..Len(sub.replays) :
                  \E j \in 1..Len(sub.replays[i].players) :
                      sub.replays[i].players[j].name = player }
    IN  IF ms # {}
        THEN LET s == SeedOf(sub.matches[Min(ms)].seed_ratings, player)
             IN  [found |-> TRUE, os |-> s.mu - s.sigma]
        ELSE IF rs # {}
        THEN LET r == sub.replays[Min(rs)]
                 j == Min({ k \in 1..Len(r.players) : r.players[k].name = player })
             IN  [found |-> TRUE, os |-> r.players[j].skill - (r.players[j].skill \div 3)]
        ELSE [found |-> FALSE, os |-> 0]

\* process_submission.py: None when the submission does not seed the player.
get_player_initial_os_from_submission(submission, player) ==
    initial_os_in(submission, player)

\* recalculate_leaderboard.py: the first submission, in file order, that
\* seeds the player; the default ordinal when none does.
get_player_initial_os(subs, player) ==
    LET hits == { i \in 1..Len(subs) : initial_os_in(subs[i], player).found }
    IN  IF hits # {} THEN initial_os_in(subs[Min(hits)], player).os
        ELSE DEFAULT_MU - DEFAULT_SIGMA

\* process_submission.py: the entry of a player seen for the first time.
create_new_player_entry(player, initial_os) ==
    LET tier == get_tier_from_os(initial_os)
        initial_cr == get_initial_champion_rating(tier.name, tier.min_cr, tier.max_cr)
    IN  PlayerRow(player, tier.name, initial_cr, initial_os)

\* A variant that creates the entry whether or not the player is known: a
\* known player's row is overwritten in place by a fresh one.
ensure_player_always(submission, player, player_entries) ==
    LET initial_os == get_player_initial_os_from_submission(submission, player)
    IN  IF ~ initial_os.found THEN player_entries
        ELSE IF HasPlayer(player_entries, player)
        THEN [ i \in 1..Len(player_entries) |->
                 IF player_entries[i].player = player
                 THEN create_new_player_entry(player, initial_os.os)
                 ELSE player_entries[i] ]
        ELSE Append(player_entries, create_new_player_entry(player, initial_os.os))

\* process_submission.py: `if player not in player_entries:` a player the
\* ledger lacks is added when the submission seeds it; a known player's
\* entry is left as it is.
ensure_player(submission, player, player_entries) ==
    LET initial_os == get_player_initial_os_from_submission(submission, player)
    IN  IF ~ HasPlayer(player_entries, player) /\ initial_os.found
        THEN Append(player_entries, create_new_player_entry(player, initial_os.os))
        ELSE player_entries

\* `for player in players:` in the order of the players list.
RECURSIVE add_new_players(_, _, _)
add_new_players(submission, players, player_entries) ==
    IF players = <<>> THEN player_entries
    ELSE add_new_players(submission, Tail(players),
                         ensure_player(submission, Head(players), player_entries))

\* recalculate_leaderboard.py: player_data holds one fresh row per name of
\* all_players, inserted in the order in which the set is iterated.
init_player_data(subs, order) ==
    [ i \in 1..Len(order) |->
        LET initial_os == get_player_initial_os(subs, order[i])
            tier == get_tier_from_os(initial_os)
            initial_cr == get_initial_champion_rating(tier.name, tier.min_cr, tier.max_cr)
        IN  PlayerRow(order[i], tier.name, initial_cr, initial_os) ]

\* all_players: every name of every players list, whatever its length.
all_players(subs) ==
    UNION { { subs[i].players[j] : j \in 1..Len(subs[i].players) } : i \in 1..Len(subs) }

\* The orders in which a Python set of these names may be iterated: string
\* hashes are randomised per process, so any order of the names can occur.
IterationOrders(S) ==
    { o \in [1..Cardinality(S) -> S] : \A i, j \in 1..Cardinality(S) : o[i] = o[j] => i = j }

\* One fixed order of the names, for a dict that is only read by key.
KeyOrder(S) == CHOOSE o \in IterationOrders(S) : TRUE

\* The rows of a dict in the insertion order `order`.
in_order(player_data, order) == [ i \in 1..Len(order) |-> EntryOf(player_data, order[i]) ]

\* ------------------------------------------------------------------------
\* Assembling the leaderboard document
\* ------------------------------------------------------------------------
\* tier_order.get(tier, -1): the 0-based position of the tier in the table.
tier_order(tier) ==
    LET hits == { i \in 1..Len(TIER_DEFINITIONS) : TIER_DEFINITIONS[i].name = tier }
    IN  IF hits = {} THEN -1 ELSE Min(hits) - 1

\* A variant that sorts current_cr ascending inside a tier.
sort_key_ascending(x) == << -tier_order(x.tier), x.current_cr >>

\* key=lambda x: (-tier_order.get(x["tier"], -1), -x["current_cr"])
sort_key(x) == << -tier_order(x.tier), -x.current_cr >>

KeyLess(k1, k2) == k1[1] < k2[1] \/ (k1[1] = k2[1] /\ k1[2] < k2[2])

\* list.sort(key=...): ascending by key, and stable, so rows with equal keys
\* keep the order they had.
StableSort(rows) ==
    LET pos(i) == 1 + Cardinality({ j \in 1..Len(rows) :
                        \/ KeyLess(sort_key(rows[j]), sort_key(rows[i]))
                        \/ (sort_key(rows[j]) = sort_key(rows[i]) /\ j < i) })
    IN  [ k \in 1..Len(rows) |-> rows[CHOOSE i \in 1..Len(rows) : pos(i) = k] ]

\* The walk over the sorted rows: a separator and a header whenever the tier
\* changes (no separator before the first header), tier_rank from 1.
RECURSIVE emit_rows(_, _, _, _)
emit_rows(results, current_tier, tier_rank, final_leaderboard) ==
    IF results = <<>> THEN final_leaderboard
    ELSE
      LET player == Head(results)
          change == current_tier # player.tier
          with_separator == IF change /\ current_tier # None
                            THEN Append(final_leaderboard, TierSeparator)
                            ELSE final_leaderboard
          with_header == IF change THEN Append(with_separator, TierHeader(player.tier))
                         ELSE with_separator
          rank == IF change THEN 1 ELSE tier_rank + 1
      IN  emit_rows(Tail(results), player.tier, rank,
                    Append(with_header, [player EXCEPT !.tier_rank = rank]))

\* process_submission.py
rebuild_leaderboard_structure(player_entries) ==
    emit_rows(StableSort(player_entries), None, 0, <<>>)

\* recalculate_leaderboard.py, the end of calculate_player_champion_ratings:
\* players without a match are dropped, the tier is taken from current_cr.
final_results(player_data) ==
    LET RECURSIVE keep(_)
        keep(rows) ==
            IF rows = <<>> THEN <<>>
            ELSE IF Head(rows).matches = 0 THEN keep(Tail(rows))
            ELSE << [Head(rows) EXCEPT !.tier = get_tier_from_cr(Head(rows).current_cr)] >>
                 \o keep(Tail(rows))
    IN  keep(player_data)

assemble_full(player_data) ==
    emit_rows(StableSort(final_results(player_data)), None, 0, <<>>)

\* The player rows of a leaderboard document, in document order.
PlayerRows(entries) == SelectSeq(entries, LAMBDA e : e.type = "player")

\* ------------------------------------------------------------------------
\* State
\* ------------------------------------------------------------------------
VARIABLES
    submissions,    \* submissions/bo3: the files in file-name order; file i is the i-th
    leaderboard,    \* public/data/leaderboard.json: [exists, entries]
    processed,      \* public/data/.processed_submissions.json: a set of file names
    pc,             \* where the running script is: "idle", "full", "incr", "incr_saved"
    ledger,         \* the running script's player_data / player_entries
    mem_processed,  \* the running incremental script's `processed` set
    work,           \* the files the running script loaded, in order
    fi,             \* the file of `work` the loop is at
    mi,             \* the step inside that file
    lbSource,       \* history: which script wrote the leaderboard file, over how many files
    snapshot,       \* history: both files as the running incremental script found them
    failures,       \* history: incremental runs that died between their two writes
    calc            \* one call of calculate_dynamic_cr_change for a decisive match

vars == << submissions, leaderboard, processed, pc, ledger, mem_processed, work,
           fi, mi, lbSource, snapshot, failures, calc >>

engineVars == << submissions, leaderboard, processed, pc, ledger, mem_processed, work,
                 fi, mi, lbSource, snapshot, failures >>

NoLeaderboard == [exists |-> FALSE, entries |-> <<>>]
NoSnapshot == [lb |-> NoLeaderboard, proc |-> {}]
NoCalc == [phase |-> "none", winner_os |-> 0, loser_os |-> 0,
           winner_delta |-> 0, loser_delta |-> 0]

EngineInit ==
    /\ submissions = <<>>
    /\ leaderboard = NoLeaderboard
    /\ processed = {}
    /\ pc = "idle"
    /\ ledger = <<>>
    /\ mem_processed = {}
    /\ work = <<>>
    /\ fi = 1
    /\ mi = 0
    /\ lbSource = << "none", 0 >>
    /\ snapshot = NoSnapshot
    /\ failures = 0

Init == EngineInit /\ calc = NoCalc

\* The script's memory is gone when it exits.
ClearMemory ==
    /\ ledger' = <<>>
    /\ mem_processed' = {}
    /\ work' = <<>>
    /\ fi' = 1
    /\ mi' = 0
    /\ snapshot' = NoSnapshot

\* A pull request with one more submission file is merged.  File names start
\* with the submission's timestamp, so the new file sorts last.
AddSubmission ==
    /\ pc = "idle"
    /\ Len(submissions) < MaxFiles
    /\ \E s \in SubmissionPool : submissions' = Append(submissions, s)
    /\ UNCHANGED << leaderboard, processed, pc, ledger, mem_processed, work, fi, mi,
                    lbSource, snapshot, failures, calc >>

\* ------------------------------------------------------------------------
\* recalculate_leaderboard.py: full recalculation
\* ------------------------------------------------------------------------
\* process_submissions(): every file of the directory, sorted by file name.
process_submissions == [ i \in 1..Len(submissions) |-> i ]

\* The games of a submission in the order the loop visits them: the matches,
\* then the replays.
GameCount(sub) == Len(sub.matches) + Len(sub.replays)

\* `for sub in submissions: if len(players) != 2: continue`, then the two
\* inner loops: the next game at or after step m of file f.
RECURSIVE full_position(_, _, _)
full_position(files, f, m) ==
    IF f > Len(files) THEN << f, 1 >>
    ELSE IF Len(submissions[files[f]].players) # 2 \/ m > GameCount(submissions[files[f]])
    THEN full_position(files, f + 1, 1)
    ELSE << f, m >>

\* update_leaderboard() up to the start of the match loop: load every file,
\* build player_data.  The dict is filled in the iteration order of the set
\* all_players; the match loop reads and writes it by key only, so the order
\* is first observed by the final pass, and it is drawn there (FullSave).
FullLoad ==
    /\ pc = "idle"
    /\ ledger' = init_player_data(submissions, KeyOrder(all_players(submissions)))
    /\ pc' = "full"
    /\ work' = process_submissions
    /\ fi' = full_position(process_submissions, 1, 1)[1]
    /\ mi' = full_position(process_submissions, 1, 1)[2]
    /\ UNCHANGED << submissions, leaderboard, processed, mem_processed, lbSource,
                    snapshot, failures, calc >>

\* One pass of an inner loop: one match or one replay.
FullGame ==
    /\ pc = "full"
    /\ fi <= Len(work)
    /\ LET sub == submissions[work[fi]]
       IN  ledger' = IF mi <= Len(sub.matches)
                     THEN process_match_for_cr_changes(sub.matches[mi], sub.players, ledger)
                     ELSE process_replay_for_cr_changes(sub.replays[mi - Len(sub.matches)],
                                                        sub.players, ledger)
    /\ fi' = full_position(work, fi, mi + 1)[1]
    /\ mi' = full_position(work, fi, mi + 1)[2]
    /\ UNCHANGED << submissions, leaderboard, processed, pc, mem_processed, work,
                    lbSource, snapshot, failures, calc >>

\* The rows are filtered, sorted and written to leaderboard.json.  The
\* processed-submissions file is neither read nor written.
FullSave ==
    /\ pc = "full"
    /\ fi > Len(work)
    /\ \E order \in IterationOrders({ ledger[i].player : i \in 1..Len(ledger) }) :
         leaderboard' = [exists |-> TRUE,
                         entries |-> assemble_full(in_order(ledger, order))]
    /\ lbSource' = << "full", Len(work) >>
    /\ pc' = "idle"
    /\ ClearMemory
    /\ UNCHANGED << submissions, processed, failures, calc >>

\* ------------------------------------------------------------------------
\* process_submission.py: incremental update
\* ------------------------------------------------------------------------
\* A variant without the processed-set filter.
get_new_submissions_unfiltered(done) == [ i \in 1..Len(submissions) |-> i ]

\* The files whose names are not in `processed`, sorted by file name.
get_new_submissions(done) ==
    SelectSeq([ i \in 1..Len(submissions) |-> i ], LAMBDA f : f \notin done)

\* process_new_submissions() up to the submission loop.  Without a
\* leaderboard file the script exits; without new files it returns.
IncrLoad ==
    /\ pc = "idle"
    /\ IF ~ leaderboard.exists \/ get_new_submissions(processed) = <<>>
       THEN UNCHANGED vars
       ELSE /\ pc' = "incr"
            /\ ledger' = PlayerRows(leaderboard.entries)
            /\ mem_processed' = processed
            /\ work' = get_new_submissions(processed)
            /\ fi' = 1
            /\ mi' = 0
            /\ snapshot' = [lb |-> leaderboard, proc |-> processed]
            /\ UNCHANGED << submissions, leaderboard, processed, lbSource, failures, calc >>

\* The head of the loop body: a submission without exactly two players is
\* skipped (and not marked processed); otherwise its unknown players are added.
IncrPlayers ==
    /\ pc = "incr"
    /\ fi <= Len(work)
    /\ mi = 0
    /\ LET sub == submissions[work[fi]]
       IN  IF Len(sub.players) # 2
           THEN /\ fi' = fi + 1
                /\ UNCHANGED << ledger, mi >>
           ELSE /\ ledger' = add_new_players(sub, sub.players, ledger)
                /\ mi' = 1
                /\ UNCHANGED fi
    /\ UNCHANGED << submissions, leaderboard, processed, pc, mem_processed, work,
                    lbSource, snapshot, failures, calc >>

\* `for match in matches: process_match_incremental(...)`, one pass.
IncrMatch ==
    /\ pc = "incr"
    /\ fi <= Len(work)
    /\ mi \in 1..Len(submissions[work[fi]].matches)
    /\ LET sub == submissions[work[fi]]
       IN  ledger' = process_match_incremental(sub.matches[mi], sub.players, ledger)
    /\ mi' = mi + 1
    /\ UNCHANGED << submissions, leaderboard, processed, pc, mem_processed, work, fi,
                    lbSource, snapshot, failures, calc >>

\* processed.add(filename)
IncrMark ==
    /\ pc = "incr"
    /\ fi <= Len(work)
    /\ mi = Len(submissions[work[fi]].matches) + 1
    /\ mem_processed' = mem_processed \cup { work[fi] }
    /\ fi' = fi + 1
    /\ mi' = 0
    /\ UNCHANGED << submissions, leaderboard, processed, pc, ledger, work,
                    lbSource, snapshot, failures, calc >>

\* The leaderboard is rebuilt from the ledger and written to leaderboard.json.
IncrSaveLeaderboard ==
    /\ pc = "incr"
    /\ fi > Len(work)
    /\ leaderboard' = [exists |-> TRUE, entries |-> rebuild_leaderboard_structure(ledger)]
    /\ lbSource' = << "incr", Len(submissions) >>
    /\ pc' = "incr_saved"
    /\ UNCHANGED << submissions, processed, ledger, mem_processed, work, fi, mi,
                    snapshot, failures, calc >>

\* save_processed_submissions(processed), the last write of the run.
IncrSaveProcessed ==
    /\ pc = "incr_saved"
    /\ processed' = mem_processed
    /\ pc' = "idle"
    /\ ClearMemory
    /\ UNCHANGED << submissions, leaderboard, lbSource, failures, calc >>

\* A running script dies before it has written anything: an exception
\* reaches the `except` of __main__ (a malformed field, an I/O error) or the
\* job is killed.  Nothing on disk has changed.
Abort ==
    /\ pc \in { "full", "incr" }
    /\ pc' = "idle"
    /\ ClearMemory
    /\ UNCHANGED << submissions, leaderboard, processed, lbSource, failures, calc >>

\* The incremental script dies between its two writes: leaderboard.json is
\* written, save_processed_submissions() raises or the job is killed.
FailAfterWrite ==
    /\ pc = "incr_saved"
    /\ failures < MaxFailures
    /\ failures' = failures + 1
    /\ pc' = "idle"
    /\ ClearMemory
    /\ UNCHANGED << submissions, leaderboard, processed, lbSource, calc >>

Next ==
    \/ AddSubmission
    \/ FullLoad
    \/ FullGame
    \/ FullSave
    \/ IncrLoad
    \/ IncrPlayers
    \/ IncrMatch
    \/ IncrMark
    \/ IncrSaveLeaderboard
    \/ IncrSaveProcessed
    \/ Abort
    \/ FailAfterWrite

Spec == Init /\ [][Next]_vars

\* ------------------------------------------------------------------------
\* The CR delta on its own: every pair of pre-match ordinals
\* ------------------------------------------------------------------------
OsValues == (-5 * Scale) .. (OsRange * Scale)

InitDelta ==
    /\ EngineInit
    /\ calc \in [ phase : {"in"}, winner_os : OsValues, loser_os : OsValues,
                  winner_delta : {0}, loser_delta : {0} ]

\* The two calls made for a decisive match: the winner's delta with
\* is_winner=True, the loser's with is_winner=False.
CalcDelta ==
    /\ calc.phase = "in"
    /\ calc' = [ calc EXCEPT
                   !.phase = "out",
                   !.winner_delta = calculate_dynamic_cr_change(calc.winner_os, calc.loser_os, TRUE),
                   !.loser_delta = calculate_dynamic_cr_change(calc.winner_os, calc.loser_os, FALSE) ]
    /\ UNCHANGED engineVars

NextDelta == CalcDelta

SpecDelta == InitDelta /\ [][NextDelta]_vars

\* ------------------------------------------------------------------------
\* Properties of the CR delta (SpecDelta)
\* ------------------------------------------------------------------------
\* C2: for every pair of pre-match ordinals the winner's delta is an integer
\* in [CR_MIN_CHANGE, CR_MAX_CHANGE] and the loser's an integer in
\* [-CR_MAX_CHANGE, -CR_MIN_CHANGE].
C2_DeltaBounds ==
    calc.phase = "out" =>
        /\ calc.winner_delta \in CR_MIN_CHANGE .. CR_MAX_CHANGE
        /\ calc.loser_delta \in (-CR_MAX_CHANGE) .. (-CR_MIN_CHANGE)

\* The loser of an upset: the unclamped value would be 0, the bound makes it -2.
C2_Witness ==
    /\ calc.phase = "out"
    /\ calc.loser_os - calc.winner_os >= SKILL_DIFF_THRESHOLD * Scale
    /\ calc.loser_delta = -CR_MIN_CHANGE

C4_UpsetMaxGain ==
    (calc.phase = "out" /\ calc.loser_os - calc.winner_os >= SKILL_DIFF_THRESHOLD * Scale) =>
        /\ calc.winner_delta = CR_MAX_CHANGE
        /\ calc.loser_delta = -CR_MIN_CHANGE

\* ------------------------------------------------------------------------
\* Properties of the engine (Spec)
\* ------------------------------------------------------------------------
\* The submission the running loop is at.
CurrentSub == submissions[work[fi]]

\* The games of the directory that name player p: every match and replay of
\* every file whose players list holds p, each counted once.
RECURSIVE GamesWith(_, _)
GamesWith(p, n) ==
    IF n = 0 THEN 0
    ELSE GamesWith(p, n - 1)
         + (IF \E j \in 1..Len(submissions[n].players) : submissions[n].players[j] = p
            THEN GameCount(submissions[n]) ELSE 0)

\* C1: a game of the submissions directory contributes to a player's matches
\* at most once, whatever sequence of full and incremental runs produced the
\* leaderboard: no player row counts more matches than the directory holds
\* games of that player.
C1_AtMostOnce ==
    \A i \in 1..Len(leaderboard.entries) :
        leaderboard.entries[i].type = "player" =>
            leaderboard.entries[i].matches
                <= GamesWith(leaderboard.entries[i].player, Len(submissions))

\* A step of the incremental loop that applies one match, and a step of the
\* full loop that applies one match or replay.
IncrMatchStep == pc = "incr" /\ pc' = "incr" /\ fi <= Len(work) /\ fi' = fi /\ mi >= 1 /\ mi' = mi + 1
FullGameStep == pc = "full" /\ pc' = "full" /\ fi <= Len(work)

\* The winner of the game the loop is at.
CurrentWinner ==
    IF mi <= Len(CurrentSub.matches)
    THEN CurrentSub.matches[mi].winner
    ELSE CurrentSub.replays[mi - Len(CurrentSub.matches)].winner

\* The game the loop is at has a winner that is neither of the two players.
CurrentIsTie ==
    /\ Len(CurrentSub.players) = 2
    /\ CurrentWinner # None
    /\ CurrentWinner # CurrentSub.players[1]
    /\ CurrentWinner # CurrentSub.players[2]

\* C5: a game whose winner is neither of the submission's two players leaves
\* the current_cr of both players unchanged, in full recalculation and in
\* incremental update.
C5_TieZeroDelta ==
    [][ ((IncrMatchStep \/ FullGameStep) /\ CurrentIsTie) =>
            \A j \in 1..2 :
                HasPlayer(ledger, CurrentSub.players[j]) =>
                    /\ HasPlayer(ledger', CurrentSub.players[j])
                    /\ EntryOf(ledger', CurrentSub.players[j]).current_cr
                         = EntryOf(ledger, CurrentSub.players[j]).current_cr ]_vars

\* The incremental loop has just applied a tie to two known players: both
\* have one more match and their initial rating.
C5_Witness ==
    /\ pc = "incr"
    /\ fi <= Len(work)
    /\ mi = 2
    /\ Len(CurrentSub.players) = 2
    /\ CurrentSub.matches[1].winner = Draw
    /\ CurrentSub.matches[1].seed_ratings # {}
    /\ \A j \in 1..2 :
         /\ HasPlayer(ledger, CurrentSub.players[j])
         /\ EntryOf(ledger, CurrentSub.players[j]).matches = 1
         /\ EntryOf(ledger, CurrentSub.players[j]).losses = 1
         /\ EntryOf(ledger, CurrentSub.players[j]).current_cr
              = EntryOf(ledger, CurrentSub.players[j]).initial_cr

\* ------------------------------------------------------------------------
\* The assembled leaderboard
\* ------------------------------------------------------------------------
\* The player rows of leaderboard.json, in document order.
LeaderboardRows == PlayerRows(leaderboard.entries)

\* C6: in the assembled leaderboard the player rows of a tier are contiguous,
\* the tiers run from highest to lowest, and within a tier current_cr does
\* not increase from one row to the next.
C6_TierThenCrOrder ==
    \A i, j \in 1..Len(LeaderboardRows) :
        i < j =>
            /\ tier_order(LeaderboardRows[i].tier) >= tier_order(LeaderboardRows[j].tier)
            /\ LeaderboardRows[i].tier = LeaderboardRows[j].tier =>
                   /\ LeaderboardRows[i].current_cr >= LeaderboardRows[j].current_cr
                   /\ \A k \in i..j : LeaderboardRows[k].tier = LeaderboardRows[i].tier

\* A leaderboard of three players in two tiers, two of them in one tier with
\* different ratings.
C6_Witness ==
    /\ Len(LeaderboardRows) = 3
    /\ LeaderboardRows[1].tier # LeaderboardRows[3].tier
    /\ \E i \in 1..2 :
         /\ LeaderboardRows[i].tier = LeaderboardRows[i + 1].tier
         /\ LeaderboardRows[i].current_cr > LeaderboardRows[i + 1].current_cr

\* C7: a full recalculation over the files an earlier full recalculation has
\* already written the leaderboard from writes the same entries again: the
\* order of the rows does not depend on the iteration order of all_players.
C7_FullRecalculationRepeatable ==
    [][ (pc = "full" /\ pc' = "idle" /\ fi > Len(work)
            /\ lbSource = << "full", Len(work) >>)
        => leaderboard' = leaderboard ]_vars

\* ------------------------------------------------------------------------
\* The incremental update and the two persisted files
\* ------------------------------------------------------------------------
\* The running incremental script dies: before its first write, or between
\* its two writes.
IncrementalFails ==
    \/ pc = "incr" /\ pc' = "idle"
    \/ pc = "incr_saved" /\ pc' = "idle" /\ failures' # failures

\* C8: when an incremental update fails, leaderboard.json and
\* .processed_submissions.json are both as the run found them.
C8_FailureKeepsBothFiles ==
    [][ IncrementalFails =>
            /\ leaderboard' = snapshot.lb
            /\ processed' = snapshot.proc ]_vars

\* The files of the directory with exactly two players: the ones a run applies.
Applicable(files) == { f \in files : Len(submissions[f].players) = 2 }

\* The files the running script loaded.
WorkFiles == { work[i] : i \in 1..Len(work) }

\* Two rows agree on every field but the rank inside the tier table.
SamePlayerFields(rows1, rows2) ==
    /\ Len(rows1) = Len(rows2)
    /\ \A i \in 1..Len(rows1) : HasPlayer(rows2, rows1[i].player)
                                /\ EntryOf(rows2, rows1[i].player) = rows1[i]

\* C9: an incremental run loads only files that are not in the persisted
\* processed set and applies matches of those files only; when it ends, the
\* persisted set is the old set plus every file the run applied, which leaves
\* no two-player file of the directory outside the set; a run that finds no
\* file to apply leaves every player row and the processed set as they were.
C9_OnlyUnprocessedApplied ==
    [][ /\ (pc = "idle" /\ pc' = "incr") =>
               /\ work' # <<>>
               /\ \A i \in 1..Len(work') : work'[i] \notin processed
        /\ (pc = "incr" /\ pc' = "incr" /\ ledger' # ledger) =>
               /\ fi <= Len(work)
               /\ work[fi] \notin processed
               /\ work[fi] \notin mem_processed
        /\ (pc = "incr_saved" /\ pc' = "idle" /\ failures' = failures) =>
               /\ processed' = processed \cup Applicable(WorkFiles)
               /\ Applicable(1..Len(submissions)) \subseteq processed'
        /\ (pc = "incr" /\ pc' = "incr_saved" /\ Applicable(WorkFiles) = {}) =>
               /\ SamePlayerFields(PlayerRows(leaderboard'.entries), LeaderboardRows)
               /\ mem_processed = processed ]_vars

\* A second incremental run: the file an earlier run recorded was not loaded
\* again, the new file has been applied and marked, the leaderboard written.
C9_Witness ==
    /\ pc = "incr_saved"
    /\ snapshot.proc # {}
    /\ WorkFiles \cap snapshot.proc = {}
    /\ mem_processed = snapshot.proc \cup WorkFiles
    /\ leaderboard # snapshot.lb

\* Row `after` has the player of row `before` with the same initial values.
KeepsInitialValues(before, after) ==
    \A i \in 1..Len(before) :
        /\ HasPlayer(after, before[i].player)
        /\ EntryOf(after, before[i].player).initial_os = before[i].initial_os
        /\ EntryOf(after, before[i].player).initial_cr = before[i].initial_cr

\* C10: a player entry keeps its initial_os and initial_cr: the incremental
\* script loads them from the leaderboard, no step of either script's loop
\* changes them for a player the ledger holds, and the incremental script
\* writes them back, whatever seed ratings the new submissions carry.
C10_InitialValuesKept ==
    [][ /\ (pc = "idle" /\ pc' = "incr") => KeepsInitialValues(LeaderboardRows, ledger')
        /\ (pc \in { "full", "incr" } /\ pc' = pc) => KeepsInitialValues(ledger, ledger')
        /\ (pc = "incr" /\ pc' = "incr_saved") =>
               /\ KeepsInitialValues(ledger, PlayerRows(leaderboard'.entries))
               /\ KeepsInitialValues(PlayerRows(snapshot.lb.entries),
                                     PlayerRows(leaderboard'.entries)) ]_vars

\* The incremental loop has passed the player check of a submission that
\* seeds a known player with an ordinal other than the player's initial_os,
\* and the leaderboard has been written with the old value.
C10_Witness ==
    /\ pc = "incr_saved"
    /\ \E f \in Applicable(WorkFiles) : \E j \in 1..2 :
         LET p == submissions[f].players[j]
             seeded == get_player_initial_os_from_submission(submissions[f], p)
         IN  /\ HasPlayer(PlayerRows(snapshot.lb.entries), p)
             /\ seeded.found
             /\ seeded.os # EntryOf(PlayerRows(snapshot.lb.entries), p).initial_os
             /\ EntryOf(LeaderboardRows, p).initial_os
                  = EntryOf(PlayerRows(snapshot.lb.entries), p).initial_os

\* ------------------------------------------------------------------------
\* Counters and tiers of the player entries
\* ------------------------------------------------------------------------
\* wins + losses = matches on every row.
CountersAddUp(rows) ==
    \A i \in 1..Len(rows) :
        /\ rows[i].matches >= 0 /\ rows[i].wins >= 0 /\ rows[i].losses >= 0
        /\ rows[i].wins + rows[i].losses = rows[i].matches

\* From row set `before` to `after` no counter of a player decreases, and a
\* player whose row changed has one more match and one more win or loss.
CountersStep(before, after) ==
    \A i \in 1..Len(before) :
        /\ HasPlayer(after, before[i].player)
        /\ LET old == before[i]
               new == EntryOf(after, before[i].player)
           IN  \/ new = old
               \/ /\ new.matches = old.matches + 1
                  /\ \/ new.wins = old.wins + 1 /\ new.losses = old.losses
                     \/ new.wins = old.wins /\ new.losses = old.losses + 1

\* C11: in the ledger of a running script the counters of a player never
\* decrease and wins + losses = matches; a step of the match loop leaves a
\* player's row as it is or adds one to matches and one to exactly one of
\* wins and losses; the rows loaded from and written to leaderboard.json
\* carry the same counters.
C11_CountersGrowTogether ==
    [][ /\ CountersAddUp(ledger')
        /\ CountersAddUp(PlayerRows(leaderboard'.entries))
        /\ (pc \in { "full", "incr" } /\ pc' = pc) => CountersStep(ledger, ledger')
        /\ (pc = "idle" /\ pc' = "incr") => ledger' = LeaderboardRows
        /\ (pc = "incr" /\ pc' = "incr_saved") =>
               \A i \in 1..Len(ledger) :
                   LET row == EntryOf(PlayerRows(leaderboard'.entries), ledger[i].player)
                   IN  /\ row.matches = ledger[i].matches
                       /\ row.wins = ledger[i].wins
                       /\ row.losses = ledger[i].losses ]_vars

\* The incremental loop has applied a series of two games to a player who
\* won one and lost one.
C11_Witness ==
    /\ pc = "incr"
    /\ fi <= Len(work)
    /\ mi = 3
    /\ \E i \in 1..Len(ledger) :
         ledger[i].matches >= 2 /\ ledger[i].wins >= 1 /\ ledger[i].losses >= 1

\* C12: every player row of leaderboard.json has the tier that
\* get_tier_from_cr gives for its current_cr, whether the player was just
\* created, was updated by a match or was carried over from the previous
\* leaderboard.
C12_TierMatchesCurrentCr ==
    \A i \in 1..Len(LeaderboardRows) :
        LeaderboardRows[i].tier = get_tier_from_cr(LeaderboardRows[i].current_cr)

\* A leaderboard written by the incremental script with a player who has
\* left the tier they started in, next to a player who has not.
C12_Witness ==
    /\ lbSource[1] = "incr"
    /\ \E i, j \in 1..Len(LeaderboardRows) :
         /\ LeaderboardRows[i].tier # get_tier_from_cr(LeaderboardRows[i].initial_cr)
         /\ LeaderboardRows[i].matches > 0
         /\ LeaderboardRows[j].tier = get_tier_from_cr(LeaderboardRows[j].initial_cr)

\* ------------------------------------------------------------------------
\* The tier lookups on their own: every ordinal, every rating
\* ------------------------------------------------------------------------
TopTier == TIER_DEFINITIONS[Len(TIER_DEFINITIONS)]

TierOsValues ==
    ((TIER_DEFINITIONS[1].min_os - OsMargin) * Scale) .. ((TopTier.max_os + OsMargin) * Scale)

TierCrValues == (TIER_DEFINITIONS[1].min_cr - CrMargin) .. (TopTier.max_cr + CrMargin)

InitTier ==
    /\ EngineInit
    /\ calc \in [ phase : {"in"}, kind : {"os"}, arg : TierOsValues ]
                \cup [ phase : {"in"}, kind : {"cr"}, arg : TierCrValues ]

\* A player is created from an initial ordinal: get_tier_from_os, then
\* create_new_player_entry.
TierFromOs ==
    /\ calc.phase = "in"
    /\ calc.kind = "os"
    /\ calc' = [ phase |-> "out", kind |-> "os", arg |-> calc.arg,
                 tier |-> get_tier_from_os(calc.arg),
                 entry |-> create_new_player_entry("a", calc.arg) ]
    /\ UNCHANGED engineVars

\* The tier of a rating is looked up: get_tier_from_cr.
TierFromCr ==
    /\ calc.phase = "in"
    /\ calc.kind = "cr"
    /\ calc' = [ phase |-> "out", kind |-> "cr", arg |-> calc.arg,
                 tier |-> get_tier_from_cr(calc.arg) ]
    /\ UNCHANGED engineVars

NextTier ==
    \/ TierFromOs
    \/ TierFromCr

SpecTier == InitTier /\ [][NextTier]_vars

\* The ordinal lies in the [min_os, max_os) interval of tier i.
InOsBand(os_value, i) ==
    /\ TIER_DEFINITIONS[i].min_os * Scale <= os_value
    /\ os_value < TIER_DEFINITIONS[i].max_os * Scale

\* C13: get_tier_from_os returns a tier of TIER_DEFINITIONS for every
\* ordinal: the first tier whose [min_os, max_os) interval holds the ordinal
\* when there is one, and the last tier for an ordinal at or above every
\* upper bound.
C13_FirstBandOrTop ==
    (calc.phase = "out" /\ calc.kind = "os") =>
        /\ \E i \in 1..Len(TIER_DEFINITIONS) : calc.tier = TIER_DEFINITIONS[i]
        /\ \A i \in 1..Len(TIER_DEFINITIONS) :
               (InOsBand(calc.arg, i) /\ \A j \in 1..(i - 1) : ~ InOsBand(calc.arg, j))
                   => calc.tier = TIER_DEFINITIONS[i]
        /\ (\A i \in 1..Len(TIER_DEFINITIONS) : calc.arg >= TIER_DEFINITIONS[i].max_os * Scale)
               => calc.tier = TopTier

\* An ordinal above every upper bound has been resolved to the highest tier.
C13_Witness ==
    /\ calc.phase = "out"
    /\ calc.kind = "os"
    /\ calc.arg > TopTier.max_os * Scale
    /\ calc.tier.name = "Grandmaster"

\* C14: each band's upper bound is the next band's lower bound, and an
\* ordinal below the highest upper bound lies in the [min_os, max_os)
\* interval of exactly one tier, the tier get_tier_from_os returns: the
\* default at the end of the function is reached only at or above the
\* highest upper bound.
C14_BandsExhaustive ==
    (calc.phase = "out" /\ calc.kind = "os") =>
        /\ \A i \in 1..(Len(TIER_DEFINITIONS) - 1) :
               TIER_DEFINITIONS[i].max_os = TIER_DEFINITIONS[i + 1].min_os
        /\ calc.arg < TopTier.max_os * Scale =>
               /\ Cardinality({ i \in 1..Len(TIER_DEFINITIONS) : InOsBand(calc.arg, i) }) = 1
               /\ \A i \in 1..Len(TIER_DEFINITIONS) :
                      InOsBand(calc.arg, i) => calc.tier = TIER_DEFINITIONS[i]

\* The percentile num / den lies in the (min %, max %) band of tier i.
InPercentileBand(pct, i) ==
    /\ TIER_DEFINITIONS[i].min_os * pct.den <= pct.num
    /\ pct.num < TIER_DEFINITIONS[i].max_os * pct.den

\* C15: a new player's tier is the tier whose (min %, max %) band holds
\* get_os_percentile(initial_os).
C15_InitialTierByPercentile ==
    (calc.phase = "out" /\ calc.kind = "os") =>
        \E i \in 1..Len(TIER_DEFINITIONS) :
            /\ InPercentileBand(get_os_percentile(calc.arg), i)
            /\ calc.entry.tier = TIER_DEFINITIONS[i].name

\* C16: a newly created player has current_cr = initial_cr = the integer
\* midpoint (min_cr + max_cr) div 2 of the tier found for the initial
\* ordinal; the midpoint lies in that tier's own [min_cr, max_cr) range, so
\* get_tier_from_cr(initial_cr) is the initial tier.
C16_InitialCrIsMidpoint ==
    (calc.phase = "out" /\ calc.kind = "os") =>
        /\ calc.entry.tier = calc.tier.name
        /\ calc.entry.initial_cr = (calc.tier.min_cr + calc.tier.max_cr) \div 2
        /\ calc.entry.current_cr = calc.entry.initial_cr
        /\ calc.tier.min_cr <= calc.entry.initial_cr
        /\ calc.entry.initial_cr < calc.tier.max_cr
        /\ get_tier_from_cr(calc.entry.initial_cr) = calc.entry.tier

\* A player created from an ordinal of 85 points: Diamond, 2300.
C16_Witness ==
    /\ calc.phase = "out"
    /\ calc.kind = "os"
    /\ calc.arg = 85 * Scale
    /\ calc.entry.tier = "Diamond"
    /\ calc.entry.initial_cr = 2300
    /\ calc.entry.current_cr = 2300
    /\ calc.entry.matches = 0

\* The rating lies in the [min_cr, max_cr) range of tier i.
InCrBand(champion_rating, i) ==
    /\ TIER_DEFINITIONS[i].min_cr <= champion_rating
    /\ champion_rating < TIER_DEFINITIONS[i].max_cr

\* C17: get_tier_from_cr names a tier for every integer: the tier whose
\* [min_cr, max_cr) range holds the rating, the lowest tier for a rating below
\* the lowest min_cr, the highest tier for a rating at or above the highest
\* max_cr.
C17_TierFromCrTotal ==
    (calc.phase = "out" /\ calc.kind = "cr") =>
        /\ \E i \in 1..Len(TIER_DEFINITIONS) : calc.tier = TIER_DEFINITIONS[i].name
        /\ \A i \in 1..Len(TIER_DEFINITIONS) :
               InCrBand(calc.arg, i) => calc.tier = TIER_DEFINITIONS[i].name
        /\ calc.arg < TIER_DEFINITIONS[1].min_cr => calc.tier = TIER_DEFINITIONS[1].name
        /\ calc.arg >= TopTier.max_cr => calc.tier = TopTier.name

\* A rating below every range has been given the lowest tier.
C17_Witness ==
    /\ calc.phase = "out"
    /\ calc.kind = "cr"
    /\ calc.arg < TIER_DEFINITIONS[1].min_cr
    /\ calc.tier = "Bronze"

\* ------------------------------------------------------------------------
\* Seed ratings: where a (mu, sigma) pair comes from
\* ------------------------------------------------------------------------
\* bot/config.py: DEFAULT_SIGMA = 8.333, in units of 1/Scale (50/6 = 8.33..).
BOT_DEFAULT_SIGMA == 50

\* bot/main.py, validate_replay: the seed rating written for one player of a
\* replay.  parse_skill gives 0.0 for a missing or unreadable value.
validate_replay_seed_rating(name, mu, sigma) ==
    [name |-> name, mu |-> mu, sigma |-> IF sigma = 0 THEN BOT_DEFAULT_SIGMA ELSE sigma]

SeedMuValues == { m * Scale : m \in 0..MaxSeedMu }
SeedSigmaValues == 0..(MaxSeedSigma * Scale)

InitSeed ==
    /\ EngineInit
    /\ calc \in [ phase : {"in"}, kind : {"bot", "match", "match_unseeded", "replay"},
                  mu : SeedMuValues, sigma : SeedSigmaValues ]

\* The bot reads a player's skill and skillUncertainty from a replay.
BotSeed ==
    /\ calc.phase = "in"
    /\ calc.kind = "bot"
    /\ calc' = [ calc EXCEPT !.phase = "out",
                             !.sigma = validate_replay_seed_rating("a", calc.mu, calc.sigma).sigma ]
    /\ UNCHANGED engineVars

\* The engine reads player a's pre-match rating from the seed_ratings of a
\* match: the pair it hands to MODEL.create_rating and takes mu - sigma of.
\* In a "match_unseeded" record seed_ratings names only the opponent.
MatchSeed ==
    /\ calc.phase = "in"
    /\ calc.kind \in { "match", "match_unseeded" }
    /\ LET seed_ratings == IF calc.kind = "match"
                           THEN { [name |-> "a", mu |-> calc.mu, sigma |-> calc.sigma],
                                  Seed("b", 16, 4) }
                           ELSE { Seed("b", 16, 4) }
       IN  calc' = [ calc EXCEPT !.phase = "out",
                                 !.mu = SeedOf(seed_ratings, "a").mu,
                                 !.sigma = SeedOf(seed_ratings, "a").sigma ]
    /\ UNCHANGED engineVars

\* The engine reads player a's pre-match rating from a replay of the older
\* shape; a player without a skill is left out and the replay is skipped.
ReplaySeed ==
    /\ calc.phase = "in"
    /\ calc.kind = "replay"
    /\ LET skills == player_skills(Replay("a", << [name |-> "a", skill |-> calc.mu],
                                                  Skill("b", 18) >>))
       IN  calc' = IF HasSeed(skills, "a")
                   THEN [ calc EXCEPT !.phase = "out",
                                      !.mu = SeedOf(skills, "a").mu,
                                      !.sigma = SeedOf(skills, "a").sigma ]
                   ELSE [ calc EXCEPT !.phase = "skipped" ]
    /\ UNCHANGED engineVars

NextSeed ==
    \/ BotSeed
    \/ MatchSeed
    \/ ReplaySeed

SpecSeed == InitSeed /\ [][NextSeed]_vars

\* C18: every (mu, sigma) pair that is written as a seed rating, handed to
\* the rating model or used to compute an ordinal has sigma > 0.
C18_SigmaPositive ==
    calc.phase = "out" => calc.sigma > 0

\* ------------------------------------------------------------------------
\* The two shapes of a game
\* ------------------------------------------------------------------------
\* A replay of the older shape written in the newer shape: the same winner,
\* seed_ratings = the (mu, sigma = skill / 3) pairs of its players.
AsMatch(replay) == Match(replay.winner, player_skills(replay))

\* The games of a submission, all in the newer shape: its matches, then its
\* replays.
GamesAsMatches(sub) ==
    sub.matches \o [ i \in 1..Len(sub.replays) |-> AsMatch(sub.replays[i]) ]

\* The incremental per-match step applied to a list of newer-shape games.
RECURSIVE ApplyIncremental(_, _, _)
ApplyIncremental(games, players, player_entries) ==
    IF games = <<>> THEN player_entries
    ELSE ApplyIncremental(Tail(games), players,
                          process_match_incremental(Head(games), players, player_entries))

\* The replay names both players of the submission with a skill.
WellFormedReplay(replay, players) ==
    /\ Len(replay.players) = 2
    /\ \A j \in 1..2 : HasSeed(player_skills(replay), players[j])

\* The incremental loop marks the first file of its run as processed.
MarksFirstFile ==
    /\ pc = "incr" /\ pc' = "incr"
    /\ fi = 1 /\ fi' = 2
    /\ mem_processed' # mem_processed

\* C19: a game of the older shape is applied like the same game in the newer
\* shape.  Full recalculation: a step that applies a well-formed replay
\* changes the ledger as the match step does for the replay written as a
\* match.  Incremental update: when a file is marked processed, the ledger is
\* the loaded ledger with the file's new players added and every game of the
\* file, matches and replays, applied.
C19_BothShapesApplied ==
    [][ /\ (FullGameStep /\ mi > Len(CurrentSub.matches)
               /\ WellFormedReplay(CurrentSub.replays[mi - Len(CurrentSub.matches)],
                                   CurrentSub.players)) =>
               ledger' = process_match_for_cr_changes(
                             AsMatch(CurrentSub.replays[mi - Len(CurrentSub.matches)]),
                             CurrentSub.players, ledger)
        /\ MarksFirstFile =>
               ledger = ApplyIncremental(
                            GamesAsMatches(CurrentSub), CurrentSub.players,
                            add_new_players(CurrentSub, CurrentSub.players,
                                            PlayerRows(snapshot.lb.entries))) ]_vars

\* ------------------------------------------------------------------------
\* Malformed records
\* ------------------------------------------------------------------------
\* The game the loop is at has no winner or no seed ratings (a replay: no
\* winner).
CurrentIsMalformed ==
    IF mi <= Len(CurrentSub.matches)
    THEN CurrentSub.matches[mi].winner = None \/ CurrentSub.matches[mi].seed_ratings = {}
    ELSE CurrentSub.replays[mi - Len(CurrentSub.matches)].winner = None

\* The submissions whose players list has exactly two names.
TwoPlayerFiles(subs) == SelectSeq(subs, LAMBDA sub : Len(sub.players) = 2)

\* The initial rows full recalculation builds from the two-player files alone.
InitialRowsWithoutMalformed ==
    init_player_data(TwoPlayerFiles(submissions),
                     KeyOrder(all_players(TwoPlayerFiles(submissions))))

\* C20: a malformed record has no effect on the ledger and the loop goes on
\* to the next record.  A match without a winner or without seed ratings
\* leaves every player entry as it is; a submission without exactly two
\* players is passed over by the incremental loop, and in full recalculation
\* every player of a two-player file starts from the row the two-player files
\* alone give them.
C20_MalformedSkipped ==
    [][ /\ ((IncrMatchStep \/ FullGameStep) /\ CurrentIsMalformed) =>
               /\ ledger' = ledger
               /\ pc' = pc
               /\ << fi', mi' >> # << fi, mi >>
        /\ (pc = "incr" /\ pc' = "incr" /\ fi <= Len(work) /\ mi = 0
               /\ Len(CurrentSub.players) # 2) =>
               /\ ledger' = ledger
               /\ fi' = fi + 1
        /\ (pc = "idle" /\ pc' = "full") =>
               \A p \in all_players(TwoPlayerFiles(submissions)) :
                   /\ HasPlayer(ledger', p)
                   /\ EntryOf(ledger', p) = EntryOf(InitialRowsWithoutMalformed, p) ]_vars

\* ------------------------------------------------------------------------
\* Further properties of the CR delta (SpecDelta)
\* ------------------------------------------------------------------------
\* C21: for every pair of pre-match ordinals the loser loses exactly what the
\* winner gains, so a decisive match leaves the sum of the two players'
\* current_cr unchanged.
C21_LoserLosesWhatWinnerGains ==
    calc.phase = "out" => calc.loser_delta = - calc.winner_delta

\* ------------------------------------------------------------------------
\* The Discord bot: checks of /submit (src/bot/main.py, src/bot/config.py)
\* ------------------------------------------------------------------------
REQUIRED_PLAYER_COUNT == 2
MIN_REPLAYS == 2
MAX_REPLAYS == 3
REQUIRED_WINS_FOR_SERIES == 2
MAX_REPLAY_AGE_DAYS == 40

\* Days around MAX_REPLAY_AGE_DAYS from which replay ages are drawn.
AgeWindowDays == 1

\* The startTime of a validated replay: absent (or empty), a string that
\* datetime.fromisoformat refuses, a timestamp without UTC offset, or a
\* timestamp with offset lying age_hours before `now`.
StartMissing == [kind |-> "missing", age_hours |-> 0]
StartUnparseable == [kind |-> "unparseable", age_hours |-> 0]
StartNaive == [kind |-> "naive", age_hours |-> 0]
StartTime(age_hours) == [kind |-> "time", age_hours |-> age_hours]

\* What validate_replay returns, as far as the later checks read it.
Validated(id, players, winner, startTime) ==
    [id |-> id, players |-> players, winner |-> winner, startTime |-> startTime]

\* sorted() on player names.
NameOrder == << "a", "b", "c" >>
sorted_names(names) == SelectSeq(NameOrder, LAMBDA n : n \in names)

Bo3Error(error) ==
    [ok |-> FALSE, error |-> error, p1 |-> None, p2 |-> None,
     wins |-> << >>, series_winner |-> None]

check_bo3_validity_one_win(replays) ==
    LET all_player_sets == [ i \in 1..Len(replays) |->
                               { replays[i].players[j] : j \in 1..Len(replays[i].players) } ]
    IN  IF \E i \in 1..Len(replays) : all_player_sets[i] # all_player_sets[1]
        THEN Bo3Error("All replays must have the same 2 players")
        ELSE IF Cardinality(all_player_sets[1]) # REQUIRED_PLAYER_COUNT
        THEN Bo3Error("Must have exactly 2 players")
        ELSE LET player_names == sorted_names(all_player_sets[1])
                 wins == [ n \in all_player_sets[1] |->
                             Cardinality({ i \in 1..Len(replays) : replays[i].winner = n }) ]
                 enough == { k \in 1..Len(player_names) : wins[player_names[k]] >= 1 }
             IN  [ok |-> TRUE, error |-> "", p1 |-> player_names[1], p2 |-> player_names[2],
                  wins |-> wins,
                  series_winner |-> IF enough = {} THEN None ELSE player_names[Min(enough)]]

\* check_bo3_validity: the replays must all name the same two players; one
\* win is counted per replay whose winner is one of them; the series winner
\* is the first name (in sorted order) with enough wins, or None.
check_bo3_validity(replays) ==
    LET all_player_sets == [ i \in 1..Len(replays) |->
                               { replays[i].players[j] : j \in 1..Len(replays[i].players) } ]
    IN  IF \E i \in 1..Len(replays) : all_player_sets[i] # all_player_sets[1]
        THEN Bo3Error("All replays must have the same 2 players")
        ELSE IF Cardinality(all_player_sets[1]) # REQUIRED_PLAYER_COUNT
        THEN Bo3Error("Must have exactly 2 players")
        ELSE LET player_names == sorted_names(all_player_sets[1])
                 wins == [ n \in all_player_sets[1] |->
                             Cardinality({ i \in 1..Len(replays) : replays[i].winner = n }) ]
                 enough == { k \in 1..Len(player_names) :
                               wins[player_names[k]] >= REQUIRED_WINS_FOR_SERIES }
             IN  [ok |-> TRUE, error |-> "", p1 |-> player_names[1], p2 |-> player_names[2],
                  wins |-> wins,
                  series_winner |-> IF enough = {} THEN None ELSE player_names[Min(enough)]]

\* (now - start).days: whole days, rounded towards minus infinity.
replay_age_days(age_hours) == age_hours \div 24

check_replay_age_strict(validated) ==
    LET rejecting == { i \in 1..Len(validated) :
                         \/ validated[i].startTime.kind # "time"
                         \/ replay_age_days(validated[i].startTime.age_hours) >= MAX_REPLAY_AGE_DAYS }
    IN  IF rejecting = {} THEN "ok"
        ELSE LET start_time == validated[Min(rejecting)].startTime
             IN  CASE start_time.kind = "missing" -> "missing startTime"
                   [] start_time.kind = "unparseable" -> "invalid startTime format"
                   [] start_time.kind = "naive" -> "error validating age"
                   [] OTHER -> "too old"

\* The age loop of /submit: the first replay that has no startTime, whose
\* startTime does not parse (ValueError), whose age cannot be computed (any
\* other exception: an offset-naive timestamp cannot be subtracted from the
\* offset-aware `now`) or that is older than MAX_REPLAY_AGE_DAYS ends the
\* invocation with a rejection; "ok" when the loop runs to its end.
check_replay_age(validated) ==
    LET rejecting == { i \in 1..Len(validated) :
                         \/ validated[i].startTime.kind # "time"
                         \/ replay_age_days(validated[i].startTime.age_hours) > MAX_REPLAY_AGE_DAYS }
    IN  IF rejecting = {} THEN "ok"
        ELSE LET start_time == validated[Min(rejecting)].startTime
             IN  CASE start_time.kind = "missing" -> "missing startTime"
                   [] start_time.kind = "unparseable" -> "invalid startTime format"
                   [] start_time.kind = "naive" -> "error validating age"
                   [] OTHER -> "too old"

\* ------------------------------------------------------------------------
\* SpecChecks: one call of check_bo3_validity or of the age loop
\* ------------------------------------------------------------------------
SeriesLengths == MIN_REPLAYS..MAX_REPLAYS

Bo3Replays ==
    { Validated("r", players, winner, StartTime(0)) :
        players \in { << "a", "b" >>, << "b", "a" >>, << "a", "c" >> },
        winner \in Players \cup {None} }

AgeHours ==
    {-1, 0} \cup ( (MAX_REPLAY_AGE_DAYS - AgeWindowDays) * 24
                   .. (MAX_REPLAY_AGE_DAYS + 1 + AgeWindowDays) * 24 - 1 )

AgeReplays ==
    { Validated("r", << "a", "b" >>, "a", start) :
        start \in {StartMissing, StartUnparseable, StartNaive}
                  \cup { StartTime(h) : h \in AgeHours } }

InitChecks ==
    /\ EngineInit
    /\ \/ \E n \in SeriesLengths :
            calc \in [ phase : {"in"}, kind : {"bo3"}, replays : [1..n -> Bo3Replays] ]
       \/ calc \in [ phase : {"in"}, kind : {"age"}, replays : [1..MIN_REPLAYS -> AgeReplays] ]

CheckBo3 ==
    /\ calc.phase = "in"
    /\ calc.kind = "bo3"
    /\ calc' = [phase |-> "out", kind |-> "bo3", replays |-> calc.replays,
                result |-> check_bo3_validity(calc.replays)]
    /\ UNCHANGED engineVars

CheckAge ==
    /\ calc.phase = "in"
    /\ calc.kind = "age"
    /\ calc' = [phase |-> "out", kind |-> "age", replays |-> calc.replays,
                result |-> check_replay_age(calc.replays)]
    /\ UNCHANGED engineVars

NextChecks ==
    \/ CheckBo3
    \/ CheckAge

SpecChecks == InitChecks /\ [][NextChecks]_vars

\* ------------------------------------------------------------------------
\* SpecBot: concurrent /submit invocations on one event loop
\* ------------------------------------------------------------------------
\* Every invocation is a coroutine; the others run only while it waits at an
\* await.  An action is the code between two awaits.
MaxInvocations == 2
Invocations == 1..MaxInvocations

\* A URL that REPLAY_URL_PATTERN does not match.
BadUrl == "bad-url"

\* What the replay API returns (after validate_replay) for each replay ID.
ReplayCatalog ==
    [ id \in {"r1", "r2", "r3", "r4", "r5", "r6", "r7", "r8"} |->
        CASE id = "r1" -> Validated(id, << "a", "b" >>, "a", StartTime(10 * 24))
          [] id = "r2" -> Validated(id, << "b", "a" >>, "a",
                                    StartTime(MAX_REPLAY_AGE_DAYS * 24 + 23))
          [] id = "r3" -> Validated(id, << "a", "b" >>, "b", StartTime(5 * 24))
          [] id = "r4" -> Validated(id, << "a", "b" >>, "b", StartTime(6 * 24))
          [] id = "r5" -> Validated(id, << "a", "b" >>, "a",
                                    StartTime((MAX_REPLAY_AGE_DAYS + 1) * 24))
          [] id = "r6" -> Validated(id, << "a", "c" >>, "a", StartTime(24))
          [] id = "r7" -> Validated(id, << "a", "b" >>, None, StartTime(24))
          [] OTHER     -> Validated(id, << "a", "b" >>, "a", StartMissing) ]

\* The `replays` argument of /submit, split at the commas.
SubmitPool ==
    { << "r1", "r2" >>,
      << "r2", "r3", "r1" >>,
      << "r3", "r4" >>,
      << "r1" >>,
      << "r1", "r2", "r3", "r4" >>,
      << "r1", "r1" >>,
      << "r1", BadUrl >>,
      << "r1", "r3" >>,
      << "r1", "r7" >>,
      << "r1", "r5" >>,
      << "r1", "r6" >>,
      << "r1", "r8" >> }

\* set(replay_ids)
IdSet(urls) == { urls[k] : k \in 1..Len(urls) }

\* An invocation: where it is, its arguments, its local `submissions` set
\* and how it ended ("" while running).
IdleInvocation == [pc |-> "idle", urls |-> << >>, submissions |-> {}, outcome |-> ""]

Rejected(inv, urls, outcome) ==
    [inv EXCEPT !.pc = "done", !.urls = urls, !.outcome = outcome]

\* calc.index is data/submissions_index.json, calc.prs the pull requests
\* created so far (each the set of replay IDs it carries).
InitBot ==
    /\ EngineInit
    /\ calc = [phase |-> "bot", index |-> {}, prs |-> << >>,
               inv |-> [ i \in Invocations |-> IdleInvocation ]]

\* Where an invocation stands after the code from the command's start to
\* the first await of fetch_replay: replay count, URL format, duplicate IDs,
\* load_submissions, already submitted.
submit_parse(inv, urls, index) ==
    IF Len(urls) < MIN_REPLAYS \/ Len(urls) > MAX_REPLAYS
    THEN Rejected(inv, urls, "replay count")
    ELSE IF \E k \in 1..Len(urls) : urls[k] = BadUrl
    THEN Rejected(inv, urls, "url format")
    ELSE IF Len(urls) # Cardinality(IdSet(urls))
    THEN Rejected(inv, urls, "duplicate ids")
    ELSE IF IdSet(urls) \cap index # {}
    THEN Rejected(inv, urls, "already submitted")
    ELSE [pc |-> "fetching", urls |-> urls, submissions |-> index, outcome |-> ""]

SubmitParse(i) ==
    /\ calc.phase = "bot"
    /\ calc.inv[i].pc = "idle"
    /\ \E urls \in SubmitPool :
         calc' = [calc EXCEPT !.inv[i] = submit_parse(calc.inv[i], urls, calc.index)]
    /\ UNCHANGED engineVars

\* Where an invocation stands after the replays came back: Bo3 check, series
\* winner, age check.
submit_validate(inv) ==
    LET validated == [ k \in 1..Len(inv.urls) |-> ReplayCatalog[inv.urls[k]] ]
        bo3 == check_bo3_validity(validated)
    IN  IF ~ bo3.ok THEN Rejected(inv, inv.urls, "bo3 error")
        ELSE IF bo3.series_winner = None THEN Rejected(inv, inv.urls, "no series winner")
        ELSE IF check_replay_age(validated) # "ok" THEN Rejected(inv, inv.urls, "age check")
        ELSE [inv EXCEPT !.pc = "creating_pr"]

\* asyncio.gather over fetch_replay returns, or one of the requests (or
\* validate_replay) raises.
SubmitFetch(i) ==
    /\ calc.phase = "bot"
    /\ calc.inv[i].pc = "fetching"
    /\ \E fetched \in BOOLEAN :
         calc' = [calc EXCEPT !.inv[i] =
                    IF fetched THEN submit_validate(calc.inv[i])
                    ELSE Rejected(calc.inv[i], calc.inv[i].urls, "fetch error")]
    /\ UNCHANGED engineVars

\* A variant that saves the replay IDs before it asks for the pull request.
SubmitCreatePR_saved_first(i) ==
    /\ calc.phase = "bot"
    /\ calc.inv[i].pc = "creating_pr"
    /\ \E created \in BOOLEAN :
         calc' = IF created
                 THEN [calc EXCEPT !.index = calc.inv[i].submissions
                                              \cup IdSet(calc.inv[i].urls),
                                   !.prs = Append(calc.prs, IdSet(calc.inv[i].urls)),
                                   !.inv[i].pc = "pr_created"]
                 ELSE [calc EXCEPT !.index = calc.inv[i].submissions
                                              \cup IdSet(calc.inv[i].urls),
                                   !.inv[i] =
                         Rejected(calc.inv[i], calc.inv[i].urls, "github error")]
    /\ UNCHANGED engineVars

\* create_github_pr: GitHub creates the pull request, or one of the requests
\* fails and the invocation ends with "GitHub error".
SubmitCreatePR(i) ==
    /\ calc.phase = "bot"
    /\ calc.inv[i].pc = "creating_pr"
    /\ \E created \in BOOLEAN :
         calc' = IF created
                 THEN [calc EXCEPT !.prs = Append(calc.prs, IdSet(calc.inv[i].urls)),
                                   !.inv[i].pc = "pr_created"]
                 ELSE [calc EXCEPT !.inv[i] =
                         Rejected(calc.inv[i], calc.inv[i].urls, "github error")]
    /\ UNCHANGED engineVars

\* What save_submissions writes after the pull request: the set loaded
\* before the awaits, plus this invocation's replay IDs.
saved_index(inv) == inv.submissions \cup IdSet(inv.urls)

\* The invocation resumes after create_github_pr returned: submissions.update
\* and save_submissions, then the success message.
SubmitSave(i) ==
    /\ calc.phase = "bot"
    /\ calc.inv[i].pc = "pr_created"
    /\ calc' = [calc EXCEPT !.index = saved_index(calc.inv[i]),
                            !.inv[i].pc = "done",
                            !.inv[i].outcome = "success"]
    /\ UNCHANGED engineVars

NextBot ==
    \E i \in Invocations :
        \/ SubmitParse(i)
        \/ SubmitFetch(i)
        \/ SubmitCreatePR(i)
        \/ SubmitSave(i)

SpecBot == InitBot /\ [][NextBot]_vars

\* C22: no replay ID is carried by two pull requests, also when invocations
\* interleave at their awaits.
C22_NoReplayInTwoSubmissions ==
    calc.phase = "bot" =>
        \A m, n \in 1..Len(calc.prs) : m # n => calc.prs[m] \cap calc.prs[n] = {}

\* The replays of the call name the same two players, in any order.
SameTwoPlayers(replays) ==
    \E pair \in SUBSET Players :
        /\ Cardinality(pair) = REQUIRED_PLAYER_COUNT
        /\ \A k \in 1..Len(replays) :
             { replays[k].players[j] : j \in 1..Len(replays[k].players) } = pair

\* The replays that `name` won.
WonBy(replays, name) == { k \in 1..Len(replays) : replays[k].winner = name }

\* C23: for replays with the same two players, check_bo3_validity counts one
\* win per replay won by one of the two, returns as series winner the player
\* with at least REQUIRED_WINS_FOR_SERIES wins, None when neither has, and at
\* most one player has that many wins in a series of 2 to 3 replays.
C23_SeriesWinnerHasTwoWins ==
    (calc.phase = "out" /\ calc.kind = "bo3" /\ SameTwoPlayers(calc.replays)) =>
        LET two == { calc.replays[1].players[j] : j \in 1..Len(calc.replays[1].players) }
            qualified == { n \in two :
                             Cardinality(WonBy(calc.replays, n)) >= REQUIRED_WINS_FOR_SERIES }
        IN  /\ calc.result.ok
            /\ {calc.result.p1, calc.result.p2} = two
            /\ \A n \in two : calc.result.wins[n] = Cardinality(WonBy(calc.replays, n))
            /\ Cardinality(qualified) <= 1
            /\ IF qualified = {} THEN calc.result.series_winner = None
               ELSE calc.result.series_winner \in qualified

C23_Witness ==
    /\ calc.phase = "out"
    /\ calc.kind = "bo3"
    /\ SameTwoPlayers(calc.replays)
    /\ Len(calc.replays) = MAX_REPLAYS
    /\ calc.replays[1].players # calc.replays[2].players
    /\ calc.replays[1].winner = "a"
    /\ calc.result.wins["a"] = 1
    /\ calc.result.series_winner = "b"

RECURSIVE full_loop(_, _, _)
full_loop(f, m, player_data) ==
    IF f > Len(process_submissions) THEN player_data
    ELSE LET sub == submissions[process_submissions[f]]
             after == IF m <= Len(sub.matches)
                      THEN process_match_for_cr_changes(sub.matches[m], sub.players,
                                                        player_data)
                      ELSE process_replay_for_cr_changes(sub.replays[m - Len(sub.matches)],
                                                         sub.players, player_data)
             next == full_position(process_submissions, f, m + 1)
         IN  full_loop(next[1], next[2], after)

\* The rows a full recalculation writes for the files now in the directory.
calculate_player_champion_ratings ==
    LET first == full_position(process_submissions, 1, 1)
    IN  final_results(full_loop(first[1], first[2],
                                init_player_data(submissions,
                                                 KeyOrder(all_players(submissions)))))

\* Two sets of rows name the same players with the same tier, ratings and
\* counters.
SameStandings(rows1, rows2) ==
    /\ { rows1[i].player : i \in 1..Len(rows1) } = { rows2[i].player : i \in 1..Len(rows2) }
    /\ \A i \in 1..Len(rows1) :
         LET other == EntryOf(rows2, rows1[i].player)
         IN  /\ other.tier = rows1[i].tier
             /\ other.initial_cr = rows1[i].initial_cr
             /\ other.current_cr = rows1[i].current_cr
             /\ other.matches = rows1[i].matches
             /\ other.wins = rows1[i].wins
             /\ other.losses = rows1[i].losses

\* C25: an incremental update that starts from the leaderboard of a full
\* recalculation over the first files of the directory writes the player
\* rows a full recalculation over all files writes.
C25_IncrementalAgreesWithFull ==
    [][ (pc = "incr" /\ pc' = "incr_saved" /\ lbSource[1] = "full")
        => SameStandings(PlayerRows(leaderboard'.entries),
                         calculate_player_champion_ratings) ]_vars

\* The sums of the matches and of the wins over all entries of a ledger.
RECURSIVE total_matches(_)
total_matches(rows) ==
    IF rows = <<>> THEN 0 ELSE Head(rows).matches + total_matches(Tail(rows))

RECURSIVE total_wins(_)
total_wins(rows) ==
    IF rows = <<>> THEN 0 ELSE Head(rows).wins + total_wins(Tail(rows))

\* The game the loop is at passes the guard `if not seed_ratings or not
\* winner: return` (a replay: it has a winner).
CurrentIsApplied ==
    /\ Len(CurrentSub.players) = 2
    /\ CurrentWinner # None
    /\ mi <= Len(CurrentSub.matches) => CurrentSub.matches[mi].seed_ratings # {}

\* C26: every applied match updates exactly the two players of its
\* submission: the sum of matches over the ledger grows by two, and the sum
\* of wins by one when the winner is one of the two players, else by nothing.
C26_EachMatchCountsTwice ==
    [][ ((IncrMatchStep \/ FullGameStep) /\ CurrentIsApplied) =>
            /\ total_matches(ledger') = total_matches(ledger) + 2
            /\ total_wins(ledger') = total_wins(ledger)
                 + (IF CurrentWinner \in {CurrentSub.players[1], CurrentSub.players[2]}
                    THEN 1 ELSE 0) ]_vars

\* ------------------------------------------------------------------------
\* SpecCommute: the same matches applied in every order
\* ------------------------------------------------------------------------
MaxGames == 3

\* Matches with the players list of their submission.
Game(players, match) == [players |-> players, match |-> match]

GamePool ==
    << Game(<< "a", "b" >>, Match("a", StrongWeak("a", "b"))),
       Game(<< "a", "b" >>, Match("b", StrongWeak("a", "b"))),
       Game(<< "b", "c" >>, Match("c", Even("b", "c"))),
       Game(<< "a", "c" >>, Match(Draw, Even("a", "c"))),
       Game(<< "b", "a" >>, Match("b", Lopsided("a", "b"))),
       Game(<< "c", "b" >>, Match("b", OnlyFirst("c"))) >>

\* Entries of three known players: as created, and after earlier matches
\* that left a just above the floor of Gold and b just below the top of Bronze.
NewEntries ==
    << create_new_player_entry("a", 42 * Scale),
       create_new_player_entry("b", 12 * Scale),
       create_new_player_entry("c", 12 * Scale) >>

LaterEntries ==
    [ NewEntries EXCEPT
        ![1].current_cr = 1510, ![1].matches = 6, ![1].losses = 6,
        ![2].current_cr = 1190, ![2].matches = 5, ![2].wins = 5 ]

\* One match applied by the incremental update or by the full recalculation.
apply_game(mode, game, rows) ==
    IF mode = "incr"
    THEN process_match_incremental(game.match, game.players, rows)
    ELSE process_match_for_cr_changes(game.match, game.players, rows)

\* The games of a set applied in the order of the pool.
RECURSIVE apply_in_order(_, _, _)
apply_in_order(mode, games, rows) ==
    IF games = {} THEN rows
    ELSE apply_in_order(mode, games \ {Min(games)},
                        apply_game(mode, GamePool[Min(games)], rows))

InitCommute ==
    /\ EngineInit
    /\ \E games \in SUBSET (1..Len(GamePool)), mode \in {"incr", "full"},
          start \in {NewEntries, LaterEntries} :
         /\ Cardinality(games) <= MaxGames
         /\ calc = [phase |-> "commute", mode |-> mode, games |-> games,
                    start |-> start, done |-> << >>, rows |-> start]

\* Any game of the set that has not been applied yet is applied next.
ApplyGame ==
    /\ calc.phase = "commute"
    /\ \E g \in calc.games \ { calc.done[k] : k \in 1..Len(calc.done) } :
         calc' = [calc EXCEPT !.done = Append(calc.done, g),
                              !.rows = apply_game(calc.mode, GamePool[g], calc.rows)]
    /\ UNCHANGED engineVars

NextCommute == ApplyGame

SpecCommute == InitCommute /\ [][NextCommute]_vars

\* C27: for players that are in the ledger, the entries after a set of valid
\* matches do not depend on the order in which the matches were applied:
\* current_cr, matches, wins, losses and tier are those of the pool order.
C27_MatchesCommute ==
    calc.phase = "commute" =>
        calc.rows = apply_in_order(calc.mode,
                                   { calc.done[k] : k \in 1..Len(calc.done) },
                                   calc.start)

\* Three matches applied against the pool order, one of them moving a
\* player into another tier.
C27_Witness ==
    /\ calc.phase = "commute"
    /\ calc.mode = "incr"
    /\ Len(calc.done) = MaxGames
    /\ calc.done[1] > calc.done[2]
    /\ calc.done[2] > calc.done[3]
    /\ \E i \in 1..Len(calc.rows) :
         /\ calc.rows[i].tier # calc.start[i].tier
         /\ calc.rows[i].matches >= calc.start[i].matches + 2

\* ------------------------------------------------------------------------
\* Further properties of the tier lookup (SpecTier)
\* ------------------------------------------------------------------------
\* C28: the initial tier is monotone in the initial ordinal: no stronger new
\* player is put in a lower tier, or given a lower initial CR, than the
\* player created from calc.arg.
C28_InitialTierMonotone ==
    (calc.phase = "out" /\ calc.kind = "os") =>
        \A stronger \in TierOsValues :
            calc.arg <= stronger =>
                /\ tier_order(calc.tier.name) <= tier_order(get_tier_from_os(stronger).name)
                /\ calc.entry.initial_cr
                     <= create_new_player_entry("b", stronger).initial_cr

\* ------------------------------------------------------------------------
\* The submissions index (SpecBot)
\* ------------------------------------------------------------------------
\* Invocation i ends in this step without a pull request of its own being
\* recorded: any rejection, or the failure of create_github_pr.
EndsRejected(i) ==
    /\ calc.inv[i].pc # "done"
    /\ calc'.inv[i].pc = "done"
    /\ calc'.inv[i].outcome # "success"

\* C29: a step in which an invocation ends at a rejection or at a failed
\* pull request leaves the index file as it was, and a replay ID enters the
\* index only when a pull request that carries it exists.
C29_IndexWrittenAfterPR ==
    [][ calc.phase = "bot" =>
          /\ (\E i \in Invocations : EndsRejected(i)) => calc'.index = calc.index
          /\ \A id \in calc'.index \ calc.index :
               \E k \in 1..Len(calc.prs) : id \in calc.prs[k] ]_vars

\* One invocation failed at GitHub after another one had been saved.
C29_Witness ==
    /\ calc.phase = "bot"
    /\ \E i, j \in Invocations :
         /\ calc.inv[i].outcome = "github error"
         /\ calc.inv[j].outcome = "success"
         /\ calc.inv[i].submissions = {}
         /\ calc.index = IdSet(calc.inv[j].urls)

\* C30: the index file only grows: a replay ID that is in it stays in it
\* through every later save_submissions call.
C30_IndexOnlyGrows ==
    [][ calc.phase = "bot" => calc.index \subseteq calc'.index ]_vars


=============================================================================
